---- MODULE Spec2Model ----
(***************************************************************************)
(* The automation rule engine of src/hooks/useAutomations.ts: the rule     *)
(* store (in-memory React state plus AsyncStorage), the scheduler tick,    *)
(* manual runs, the run-lock, the snapshot fetch, the predicate evaluator  *)
(* and the action executor.                                                *)
(*                                                                         *)
(* Conventions.  Time is in milliseconds.  A JavaScript number is an       *)
(* integer counted in tenths (Scale), so that the progress fraction 0.4    *)
(* is 4 and the number 100 is 1000.  A JavaScript string is a sequence of  *)
(* one-character strings.  A rule's lastRunAt holds the millisecond the    *)
(* ISO string denotes, 0 standing for null.                                *)
(***************************************************************************)
EXTENDS Integers, Sequences, FiniteSets, TLC

VARIABLES
    rules,       \* useState rules: the list the latest render closed over
    stored,      \* AsyncStorage[RULES_STORAGE_KEY], parsed
    isLoaded,    \* useState isLoaded
    runLock,     \* runLockRef.current
    runs,        \* the runRule invocations that are suspended at an await
    nOps,        \* number of user operations so far
    now,         \* Date.now()
    timerStart,  \* when the scheduler effect last called setInterval
    dialog,      \* the Alert with buttons that is open, if any
    alert,       \* title of the Alert the latest step showed
    thrown,      \* message of the error the latest step threw to its caller
    lastOp,      \* the entry point the latest step executed, with its arguments
    confirmed,   \* ids for which 'Enable Dangerous Rule' was accepted
    storageOk,   \* whether AsyncStorage.setItem succeeds in this session
    probe,       \* a direct call of a module-level function: its arguments and result
    history      \* when the latest scheduled run of each rule recorded its result,
                 \* and the ids deleteRule was called with

vars == <<rules, stored, isLoaded, runLock, runs, nOps, now, timerStart,
          dialog, alert, thrown, lastOp, confirmed, storageOk, probe, history>>

-----------------------------------------------------------------------------
(* Bounds of the model *)

MaxOps == 1        \* user operations in one behaviour
MaxClock == 2      \* clock steps in one behaviour

Max(a, b) == IF a >= b THEN a ELSE b
Min(a, b) == IF a <= b THEN a ELSE b

(* Program constants *)

THROTTLE_MS == 30000       \* runNow cooldown
TICK_MS == 30000           \* setInterval period
MS_PER_MINUTE == 60000
MS_PER_DAY == 86400000

Scale == 5 + 5                       \* tenths
Epoch == 1500 * 1000000              \* Date.now() when the provider mounts
ClockStep == Min(THROTTLE_MS, TICK_MS)   \* granularity of the clock


-----------------------------------------------------------------------------
(* JavaScript strings and numbers *)

Digits == <<"0", "1", "2", "3", "4", "5", "6", "7", "8", "9">>
UpperCase == <<"A", "B", "C", "D", "E", "F", "G", "H", "I", "J", "K", "L", "M",
               "N", "O", "P", "Q", "R", "S", "T", "U", "V", "W", "X", "Y", "Z">>
LowerCase == <<"a", "b", "c", "d", "e", "f", "g", "h", "i", "j", "k", "l", "m",
               "n", "o", "p", "q", "r", "s", "t", "u", "v", "w", "x", "y", "z">>

IsDigit(c) == \E i \in 1..10 : Digits[i] = c
DigitVal(c) == (CHOOSE i \in 1..10 : Digits[i] = c) - 1

\* String.prototype.toLowerCase
LowerChar(c) ==
    IF \E i \in 1..26 : UpperCase[i] = c
    THEN LowerCase[CHOOSE i \in 1..26 : UpperCase[i] = c]
    ELSE c
toLowerCase(s) == [i \in 1..Len(s) |-> LowerChar(s[i])]

\* String.prototype.includes
includes(s, sub) ==
    \E i \in 0..(Len(s) - Len(sub)) :
        \A j \in 1..Len(sub) : s[i + j] = sub[j]

\* String.prototype.trim
RECURSIVE TrimLeft(_)
TrimLeft(s) == IF s # <<>> /\ Head(s) = " " THEN TrimLeft(Tail(s)) ELSE s
RECURSIVE TrimRight(_)
TrimRight(s) ==
    IF s # <<>> /\ s[Len(s)] = " " THEN TrimRight(SubSeq(s, 1, Len(s) - 1)) ELSE s
trim(s) == TrimRight(TrimLeft(s))

\* JavaScript values: a finite number, NaN, or a string
Num(v) == [t |-> "number", v |-> v, s |-> <<>>]
NaN == [t |-> "NaN", v |-> 0, s |-> <<>>]
Str(s) == [t |-> "string", v |-> 0, s |-> s]
isFinite(x) == x.t = "number"

RECURSIVE IntOf(_)
IntOf(s) == IF s = <<>> THEN 0 ELSE IntOf(SubSeq(s, 1, Len(s) - 1)) * 10 + DigitVal(s[Len(s)])

AllDigits(s) == \A i \in 1..Len(s) : IsDigit(s[i])

\* An unsigned decimal literal with at most one fraction digit
UnsignedLiteral(s) ==
    LET dots == {i \in 1..Len(s) : s[i] = "."}
    IN  IF dots = {}
        THEN IF s # <<>> /\ AllDigits(s) THEN Num(IntOf(s) * Scale) ELSE NaN
        ELSE IF Cardinality(dots) = 1
        THEN LET p == CHOOSE i \in dots : TRUE
                 ip == SubSeq(s, 1, p - 1)
                 fp == SubSeq(s, p + 1, Len(s))
             IN  IF AllDigits(ip) /\ AllDigits(fp) /\ Len(ip) + Len(fp) > 0 /\ Len(fp) <= 1
                 THEN Num(IntOf(ip) * Scale + IntOf(fp))
                 ELSE NaN
        ELSE NaN

\* Number(string): surrounding blanks are dropped, the empty string is 0
NumberOfString(s) ==
    LET t == trim(s)
    IN  IF t = <<>> THEN Num(0)
        ELSE IF Head(t) = "-"
        THEN LET u == UnsignedLiteral(Tail(t))
             IN  IF isFinite(u) THEN Num(0 - u.v) ELSE NaN
        ELSE UnsignedLiteral(t)

\* Number(x) for a number or a string
ToNumber(x) == IF x.t = "string" THEN NumberOfString(x.s) ELSE x

RECURSIVE NatToString(_)
NatToString(n) ==
    IF n < 10 THEN <<Digits[n + 1]>> ELSE NatToString(n \div 10) \o <<Digits[(n % 10) + 1]>>

\* String(number)
NumberToString(v) ==
    LET a == IF v < 0 THEN 0 - v ELSE v
        body == NatToString(a \div Scale)
                \o (IF a % Scale = 0 THEN <<>> ELSE <<".", Digits[(a % Scale) + 1]>>)
    IN  IF v < 0 THEN <<"-">> \o body ELSE body

\* String(x)
StringOf(x) ==
    IF x.t = "string" THEN x.s
    ELSE IF x.t = "number" THEN NumberToString(x.v)
    ELSE <<"N", "a", "N">>

\* l === right
StrictEquals(a, b) ==
    /\ a.t = b.t
    /\ a.t # "NaN"
    /\ IF a.t = "number" THEN a.v = b.v ELSE a.s = b.s

\* const compareValues = (left, rightRaw, operator) => ...
compareValues(left, rightRaw, operator) ==
    LET rightNum == NumberOfString(rightRaw)
        leftNum == IF left.t = "number" THEN left ELSE ToNumber(left)
        right == IF isFinite(rightNum) THEN rightNum ELSE Str(toLowerCase(rightRaw))
        l == IF isFinite(leftNum) /\ right.t = "number"
             THEN leftNum
             ELSE Str(toLowerCase(StringOf(left)))
        nl == ToNumber(l)
        nr == ToNumber(right)
        bothNum == isFinite(nl) /\ isFinite(nr)
    IN  CASE operator = "equals" -> StrictEquals(l, right)
          [] operator = "not_equals" -> ~StrictEquals(l, right)
          [] operator = "greater_than" -> bothNum /\ nl.v > nr.v
          [] operator = "less_than" -> bothNum /\ nl.v < nr.v
          [] operator = "greater_than_or_equal" -> bothNum /\ nl.v >= nr.v
          [] operator = "less_than_or_equal" -> bothNum /\ nl.v <= nr.v
          [] operator = "contains" -> includes(StringOf(l), StringOf(right))
          [] OTHER -> FALSE

\* The characters of the strings that occur in rules and in the remote lists
Spell(s) ==
    CASE s = "" -> <<>>
      [] s = " " -> <<" ">>
      [] s = "1" -> <<"1">>
      [] s = "100" -> <<"1", "0", "0">>
      [] s = "10240" -> <<"1", "0", "2", "4", "0">>
      [] s = "15" -> <<"1", "5">>
      [] s = "172800" -> <<"1", "7", "2", "8", "0", "0">>
      [] s = "20" -> <<"2", "0">>
      [] s = "60" -> <<"6", "0">>
      [] s = "7" -> <<"7">>
      [] s = "Album" -> <<"A", "l", "b", "u", "m">>
      [] s = "Book" -> <<"B", "o", "o", "k">>
      [] s = "File" -> <<"F", "i", "l", "e">>
      [] s = "Movie" -> <<"M", "o", "v", "i", "e">>
      [] s = "Tracker Error" -> <<"T", "r", "a", "c", "k", "e", "r", " ", "E", "r", "r", "o", "r">>
      [] s = "cached" -> <<"c", "a", "c", "h", "e", "d">>
      [] s = "download" -> <<"d", "o", "w", "n", "l", "o", "a", "d">>
      [] s = "downloading" -> <<"d", "o", "w", "n", "l", "o", "a", "d", "i", "n", "g">>
      [] s = "error" -> <<"e", "r", "r", "o", "r">>
      [] s = "paused" -> <<"p", "a", "u", "s", "e", "d">>
      [] s = "stalled" -> <<"s", "t", "a", "l", "l", "e", "d">>
      [] s = "torrent" -> <<"t", "o", "r", "r", "e", "n", "t">>
      [] s = "usenet" -> <<"u", "s", "e", "n", "e", "t">>
      [] s = "web" -> <<"w", "e", "b">>

-----------------------------------------------------------------------------
(* Rules and presets *)

\* x ?? d, "undefined" standing for a missing field
Nullish(x, d) == IF x = "undefined" THEN d ELSE x

Cond(field, operator, value) == [field |-> field, operator |-> operator, value |-> value]

Preset(id, minutes, conditions, action, scope, isDangerous) ==
    [id |-> id, checkIntervalMinutes |-> minutes, conditions |-> conditions,
     action |-> action, scope |-> scope, isDangerous |-> isDangerous]

TORBOX_RULE_PRESETS ==
    <<
       Preset("pause_stalled_downloads", 10, <<Cond("download_stalled_time", "greater_than", "20")>>,
              "pause_download", "undefined", FALSE),
       Preset("resume_when_progress_seen", 10, <<Cond("status", "equals", "paused")>>,
              "resume_download", "undefined", FALSE),
       Preset("reannounce_stalled_torrents", 15, <<Cond("download_stalled_time", "greater_than", "15")>>,
              "reannounce_torrent", "torrent", FALSE),
       Preset("completed_notify", 5, <<Cond("progress", "equals", "100")>>,
              "notify_user", "undefined", FALSE),
       Preset("notify_errors", 5, <<Cond("status", "equals", "error")>>,
              "notify_user", "undefined", FALSE),
       Preset("completed_get_link", 10, <<Cond("progress", "equals", "100")>>,
              "request_download_link", "undefined", FALSE),
       Preset("stream_ready_media", 15, <<Cond("progress", "equals", "100")>>,
              "create_stream", "undefined", FALSE),
       Preset("delete_very_old_completed", 1440, <<Cond("age", "greater_than", "60"), Cond("progress", "equals", "100")>>,
              "delete_download", "undefined", TRUE),
       Preset("auto_delete_old_failed", 1440, <<Cond("status", "equals", "error"), Cond("age", "greater_than", "7")>>,
              "delete_download", "undefined", TRUE),
       Preset("pause_high_eta_downloads", 20, <<Cond("eta", "greater_than", "172800")>>,
              "pause_download", "undefined", FALSE),
       Preset("resume_stalled_items", 15, <<Cond("status", "contains", "stalled")>>,
              "resume_download", "undefined", FALSE),
       Preset("notify_slow_downloads", 10, <<Cond("current_download_speed", "less_than", "10240"), Cond("status", "contains", "download")>>,
              "notify_user", "undefined", FALSE),
       Preset("generate_links_for_cached", 30, <<Cond("status", "contains", "cached")>>,
              "request_download_link", "undefined", FALSE),
       Preset("stream_ready_cached", 30, <<Cond("status", "contains", "cached")>>,
              "create_stream", "undefined", FALSE),
       Preset("notify_torrent_tracker_issues", 15, <<Cond("tracker", "contains", "error")>>,
              "notify_user", "torrent", FALSE)
    >>

ALL_ACTIONS ==
    <<"delete_download", "pause_download", "resume_download", "reannounce_torrent",
      "request_download_link", "create_stream", "notify_user">>
SUPPORTED_ACTION_SET == {ALL_ACTIONS[i] : i \in 1..Len(ALL_ACTIONS)}

\* A check that lets every action/scope pair through
AnyScopeSupported(action, scope) == TRUE

isActionSupportedForScope(action, scope) ==
    ~(action = "reannounce_torrent" /\ scope # "torrent")

\* lastResult: null, or a prefix and the text after it ("Processed n item(s)." keeps n)
Result(prefix, text, n) == [prefix |-> prefix, text |-> text, n |-> n]
NullResult == Result("null", "", 0)

\* `rule_${preset.id}_${Date.now()}` and `rule_custom_${Date.now()}`
RuleId(p, t) == [p |-> p, t |-> t]

\* A preset instantiated already enabled
createRuleEnabled(preset, t) ==
    [id |-> RuleId(preset.id, t), enabled |-> TRUE,
     checkIntervalMinutes |-> preset.checkIntervalMinutes,
     conditions |-> preset.conditions, action |-> preset.action,
     scope |-> Nullish(preset.scope, "all"), isDangerous |-> preset.isDangerous,
     isCustom |-> FALSE, lastRunAt |-> 0, lastResult |-> NullResult, runCount |-> 0]

\* The fields of TorBoxRule the engine reads or writes (name, actionValue and
\* createdAt are display data and are left out)
createRuleFromPreset(preset, t) ==
    [id |-> RuleId(preset.id, t), enabled |-> FALSE,
     checkIntervalMinutes |-> preset.checkIntervalMinutes,
     conditions |-> preset.conditions, action |-> preset.action,
     scope |-> Nullish(preset.scope, "all"), isDangerous |-> preset.isDangerous,
     isCustom |-> FALSE, lastRunAt |-> 0, lastResult |-> NullResult, runCount |-> 0]

\* Array.prototype.rules.find(r => r.id === ruleId)
HasRule(list, ruleId) == \E i \in 1..Len(list) : list[i].id = ruleId
FindRule(list, ruleId) == list[CHOOSE i \in 1..Len(list) :
                                 /\ list[i].id = ruleId
                                 /\ \A j \in 1..(i - 1) : list[j].id # ruleId]

-----------------------------------------------------------------------------
(* The remote lists and the snapshot builder *)

\* An optional field: <<>> when it is missing (undefined or null), <<x>> otherwise
None == <<>>
Some(x) == <<x>>
OrElse(opt, d) == IF opt = <<>> THEN d ELSE opt[1]

N(x) == x * Scale

\* What torboxApi.getTorrents / getUsenet / getWebDownloads return: two states of
\* the remote account
TorrentMovie ==
    [id |-> 11, name |-> "Movie", progress |-> N(1), eta |-> N(0),
     download_speed |-> N(0), download_state |-> "cached",
     peers |-> Some(N(3)), ratio |-> Some(N(1)), availability |-> None,
     created_at |-> Epoch - 8 * MS_PER_DAY, updated_at |-> Epoch - 30 * MS_PER_MINUTE,
     tracker |-> Some("Tracker Error"), files |-> <<0, 4>>, size |-> N(700)]
TorrentPaused ==
    [id |-> 12, name |-> "Album", progress |-> 4, eta |-> N(90),
     download_speed |-> N(0), download_state |-> "paused",
     peers |-> None, ratio |-> None, availability |-> Some(N(1)),
     created_at |-> Epoch - 2 * MS_PER_DAY, updated_at |-> Epoch + MS_PER_MINUTE,
     tracker |-> None, files |-> <<3>>, size |-> N(90)]
UsenetBook ==
    [id |-> 21, name |-> "Book", progress |-> 4, eta |-> N(600),
     download_speed |-> N(5000), download_state |-> "downloading",
     created_at |-> Epoch - MS_PER_DAY, updated_at |-> Epoch - 16 * MS_PER_MINUTE,
     files |-> <<>>, size |-> N(50)]
WebFile ==
    [webdownload_id |-> None, web_id |-> Some(31), id |-> 32,
     name |-> "File", progress |-> N(1), eta |-> N(0),
     download_speed |-> N(0), download_state |-> "error",
     created_at |-> Epoch - 9 * MS_PER_DAY, updated_at |-> Epoch - 21 * MS_PER_MINUTE,
     files |-> <<7>>, size |-> N(5)]

RemoteStates ==
    { [torrents |-> <<TorrentMovie>>, usenet |-> <<UsenetBook>>, web |-> <<>>],
      [torrents |-> <<TorrentPaused>>, usenet |-> <<>>, web |-> <<WebFile>>] }

\* Math.max(0, Math.floor((now - new Date(updated_at).getTime()) / 60000))
StalledMinutes(t, updated_at) == Max(0, (t - updated_at) \div MS_PER_MINUTE)

Target(source, sourceId, x, peers, ratio, availability, tracker, t) ==
    [source |-> source, sourceId |-> sourceId, name |-> x.name, progress |-> x.progress,
     eta |-> x.eta, downloadSpeed |-> x.download_speed, downloadState |-> x.download_state,
     peers |-> peers, ratio |-> ratio, availability |-> availability,
     createdAt |-> x.created_at, tracker |-> tracker,
     stalledMinutes |-> N(StalledMinutes(t, x.updated_at)),
     fileIds |-> x.files, size |-> x.size]

\* toTargets, once the three lists have arrived
toTargets(remote, t) ==
    [i \in 1..Len(remote.torrents) |->
        LET x == remote.torrents[i]
        IN  Target("torrent", x.id, x, OrElse(x.peers, 0), OrElse(x.ratio, 0),
                   OrElse(x.availability, 0), x.tracker, t)]
    \o [i \in 1..Len(remote.usenet) |->
        LET x == remote.usenet[i]
        IN  Target("usenet", x.id, x, 0, 0, 0, None, t)]
    \o [i \in 1..Len(remote.web) |->
        LET x == remote.web[i]
        IN  Target("web", OrElse(x.webdownload_id, OrElse(x.web_id, x.id)), x, 0, 0, 0, None, t)]

-----------------------------------------------------------------------------
(* The predicate evaluator *)


\* fieldMap[cond.field]
FieldValue(field, target, t) ==
    CASE field = "progress" -> Num(target.progress)
      [] field = "eta" -> Num(target.eta)
      [] field = "current_download_speed" -> Num(target.downloadSpeed)
      [] field = "average_download_speed" -> Num(target.downloadSpeed)
      [] field = "download_stalled_time" -> Num(target.stalledMinutes)
      [] field = "upload_stalled_time" -> Num(target.stalledMinutes)
      [] field = "seeding_ratio" -> Num(target.ratio)
      [] field = "peers" -> Num(target.peers)
      [] field = "age" -> Num(N((t - target.createdAt) \div MS_PER_DAY))
      [] field = "tracker" -> Str(Spell(OrElse(target.tracker, "")))
      [] field = "availability" -> Num(target.availability)
      [] field = "status" -> Str(Spell(target.downloadState))
      [] field = "download_type" -> Str(Spell(target.source))
      [] field = "name_contains" -> Str(Spell(target.name))
      [] field = "size" -> Num(target.size)

\* conditions.some(...) in the place of conditions.every(...)
matchesAnyCondition(rule, target, t) ==
    IF rule.scope # "undefined" /\ rule.scope # "all" /\ target.source # rule.scope
    THEN FALSE
    ELSE \E k \in 1..Len(rule.conditions) :
            LET cond == rule.conditions[k]
            IN  \/ trim(Spell(cond.value)) = <<>>
                \/ compareValues(FieldValue(cond.field, target, t), Spell(cond.value),
                                 cond.operator)

matchesRule(rule, target, t) ==
    IF rule.scope # "undefined" /\ rule.scope # "all" /\ target.source # rule.scope
    THEN FALSE
    ELSE \A k \in 1..Len(rule.conditions) :
            LET cond == rule.conditions[k]
            IN  \/ trim(Spell(cond.value)) = <<>>
                \/ compareValues(FieldValue(cond.field, target, t), Spell(cond.value),
                                 cond.operator)

-----------------------------------------------------------------------------
(* The action executor *)

\* A reannounce arm without its test of target.source
NeedsCallAnySource(action, target) ==
    CASE action \in {"pause_download", "resume_download", "delete_download",
                     "reannounce_torrent"} -> TRUE
      [] action \in {"request_download_link", "create_stream"} ->
            target.fileIds # <<>> /\ target.fileIds[1] # 0
      [] OTHER -> FALSE

\* Whether the switch arm of rule.action awaits a remote call for this target
NeedsCall(action, target) ==
    CASE action \in {"pause_download", "resume_download", "delete_download"} -> TRUE
      [] action = "reannounce_torrent" -> target.source = "torrent"
      [] action \in {"request_download_link", "create_stream"} ->
            target.fileIds # <<>> /\ target.fileIds[1] # 0
      [] OTHER -> FALSE

\* Whether the arm reaches its affected++ for this target (its call having returned)
Counted(action, target) ==
    CASE action = "notify_user" -> TRUE
      [] action \in SUPPORTED_ACTION_SET -> NeedsCall(action, target)
      [] OTHER -> FALSE

\* The remote call the arm awaits for this target
CallOf(action, target) ==
    [fn |-> CASE action \in {"pause_download", "resume_download", "reannounce_torrent"} ->
                    (CASE target.source = "torrent" -> "controlTorrent"
                       [] target.source = "usenet" -> "controlUsenet"
                       [] target.source = "web" -> "controlWebDownload")
              [] action = "delete_download" -> "deleteItem"
              [] action = "request_download_link" -> "getDownloadLink"
              [] action = "create_stream" -> "getStreamLink",
     source |-> target.source, sourceId |-> target.sourceId,
     arg |-> CASE action = "pause_download" -> "pause"
               [] action = "resume_download" -> "resume"
               [] action = "reannounce_torrent" -> "reannounce"
               [] action = "delete_download" -> ""
               [] OTHER -> "fileId"]

\* The for loop of executeAction from target i on; the call for target k throws
\* when k \in bad, and the throw leaves the function
RECURSIVE ExecuteLoop(_, _, _, _, _, _)
ExecuteLoop(action, targets, bad, i, affected, calls) ==
    IF i > Len(targets)
    THEN [threw |-> FALSE, affected |-> affected, calls |-> calls]
    ELSE IF NeedsCall(action, targets[i])
    THEN IF i \in bad
         THEN [threw |-> TRUE, affected |-> affected,
               calls |-> Append(calls, CallOf(action, targets[i]))]
         ELSE ExecuteLoop(action, targets, bad, i + 1, affected + 1,
                          Append(calls, CallOf(action, targets[i])))
    ELSE ExecuteLoop(action, targets, bad, i + 1,
                     IF Counted(action, targets[i]) THEN affected + 1 ELSE affected, calls)

\* The string executeAction returns
Summary(targets, affected) ==
    IF targets = <<>> THEN Result("", "No matching downloads found.", 0)
    ELSE IF affected > 0 THEN Result("", IF affected = 1 THEN "Processed n item." ELSE "Processed n items.", affected)
    ELSE Result("", "No supported items matched this action.", 0)

-----------------------------------------------------------------------------
(* Inputs *)

NoId == RuleId("", 0)
MissingId == RuleId("missing", 0)

\* Presets the user picks from ("no_such_preset" is no preset's id)
PresetPool ==
    {"completed_notify", "delete_very_old_completed", "no_such_preset"}

Params(minutes, conditions, action, scope) ==
    [checkIntervalMinutes |-> minutes, conditions |-> conditions,
     action |-> action, scope |-> scope]

\* Arguments of createCustomRule
CustomParams ==
    { Params(0, <<Cond("progress", "equals", "1")>>, "delete_download", "undefined"),
      Params(2, <<>>, "reannounce_torrent", "web"),
      Params(2, <<>>, "reannounce_torrent", "undefined"),
      Params(2, <<>>, "move_download", "all") }

\* A number of minutes the interval field accepts (it has no upper limit): more
\* minutes than have passed since 1 January 1970
FarInterval == (Epoch + MaxClock * ClockStep) \div MS_PER_MINUTE + 1

Updates(minutes, action, scope) ==
    [checkIntervalMinutes |-> minutes, action |-> action, scope |-> scope]

\* Arguments of updateRule: each field given (Some) or left out (None)
UpdatePool ==
    { Updates(Some(0), None, None),
      Updates(Some(FarInterval), None, None),
      Updates(None, Some("delete_download"), None),
      Updates(None, Some("reannounce_torrent"), None),
      Updates(None, Some("reannounce_torrent"), Some("usenet")) }

\* What AsyncStorage may hold when the provider mounts
SavedNotify ==
    [createRuleFromPreset(TORBOX_RULE_PRESETS[4], Epoch - MS_PER_DAY) EXCEPT !.enabled = TRUE]
SavedPause ==
    [id |-> RuleId("custom", Epoch - MS_PER_DAY), enabled |-> TRUE, checkIntervalMinutes |-> 1,
     conditions |-> <<>>, action |-> "pause_download", scope |-> "all",
     isDangerous |-> FALSE, isCustom |-> TRUE, lastRunAt |-> Epoch - ClockStep,
     lastResult |-> Result("Scheduled run: ", "No matching downloads found.", 0),
     runCount |-> 1]
SavedLegacy ==
    [SavedPause EXCEPT !.id = RuleId("custom", Epoch - 2 * MS_PER_DAY),
                       !.action = "move_download"]
SavedReannounceWeb ==
    [createRuleFromPreset(TORBOX_RULE_PRESETS[3], Epoch - MS_PER_DAY)
        EXCEPT !.enabled = TRUE, !.scope = "web"]
SavedReannounceUsenet ==
    [SavedReannounceWeb EXCEPT !.id = RuleId("reannounce_stalled_torrents", Epoch - 3 * MS_PER_DAY),
                               !.scope = "usenet"]
SavedDelete ==
    createRuleFromPreset(TORBOX_RULE_PRESETS[8], Epoch - 2 * MS_PER_DAY)

PersistedAtStart ==
    { <<>>,
      <<SavedNotify, SavedPause>>,
      <<SavedLegacy, SavedReannounceWeb, SavedDelete>> }

-----------------------------------------------------------------------------
(* State *)

\* No function is called directly
NoProbe == [fn |-> "none"]

\* Nothing has run and nothing was deleted
NoHistory == [done |-> {}, deleted |-> {}]

NoDialog == [kind |-> "none", ruleId |-> NoId, rule |-> <<>>, snap |-> <<>>]
Op(name, ruleId) == [op |-> name, id |-> ruleId]

Ids(list) == {list[i].id : i \in 1..Len(list)}

Init ==
    /\ stored \in PersistedAtStart
    /\ rules = <<>>
    /\ isLoaded = FALSE
    /\ runLock = {}
    /\ runs = {}
    /\ nOps = 0
    /\ now = Epoch
    /\ timerStart = Epoch
    /\ dialog = NoDialog
    /\ alert = "none"
    /\ thrown = "none"
    /\ lastOp = Op("mount", NoId)
    /\ storageOk \in BOOLEAN
    /\ probe = NoProbe
    /\ history = NoHistory
    /\ confirmed = {stored[i].id : i \in {j \in 1..Len(stored) :
                        stored[j].enabled /\ stored[j].action = "delete_download"}}

\* The clock advances
ClockTick ==
    /\ now < Epoch + MaxClock * ClockStep
    /\ now' = now + ClockStep
    /\ lastOp' = Op("clock", NoId)
    /\ UNCHANGED <<storageOk, probe, history>>
    /\ alert' = "none"
    /\ thrown' = "none"
    /\ UNCHANGED <<rules, stored, isLoaded, runLock, runs, nOps, timerStart,
                   dialog, confirmed>>

IsSupportedAction(rule) == rule.action \in SUPPORTED_ACTION_SET

\* A load effect that keeps every parsed entry
LoadUnfiltered(ok) ==
    /\ ~isLoaded
    /\ rules' = IF ok THEN stored ELSE <<>>
    /\ isLoaded' = TRUE
    /\ timerStart' = now
    /\ lastOp' = Op("load", NoId)
    /\ alert' = "none"
    /\ thrown' = "none"
    /\ UNCHANGED <<stored, runLock, runs, nOps, now, dialog, confirmed, storageOk, probe,
                   history>>

\* The load effect: getItem, JSON.parse, filter, setRules, setIsLoaded
LoadRules(ok) ==
    /\ ~isLoaded
    /\ rules' = IF ok
                THEN LET keep == {i \in 1..Len(stored) : IsSupportedAction(stored[i])}
                         F[i \in 0..Len(stored)] ==
                            IF i = 0 THEN <<>>
                            ELSE IF i \in keep THEN Append(F[i - 1], stored[i]) ELSE F[i - 1]
                     IN  F[Len(stored)]
                ELSE <<>>
    /\ isLoaded' = TRUE
    /\ timerStart' = now
    /\ lastOp' = Op("load", NoId)
    /\ UNCHANGED <<storageOk, probe, history>>
    /\ alert' = "none"
    /\ thrown' = "none"
    /\ UNCHANGED <<stored, runLock, runs, nOps, now, dialog, confirmed>>

\* A save whose failure puts the previous list back
persistRulesRolledBack(newRules) ==
    /\ rules' = IF storageOk THEN newRules ELSE rules
    /\ stored' = IF storageOk THEN newRules ELSE stored
    /\ timerStart' = now

\* persistRules: setRules, then setItem, whose failure is caught and logged.  The
\* new rule list re-runs the scheduler effect, which restarts the interval timer.
persistRules(newRules) ==
    /\ rules' = newRules
    /\ stored' = IF storageOk THEN newRules ELSE stored
    /\ timerStart' = now


-----------------------------------------------------------------------------
(* runRule up to its first await *)

\* The smallest number no suspended run carries
FreshRun(started) ==
    CHOOSE n \in 1..(Cardinality(runs) + Cardinality(started) + 1) :
        /\ \A r \in runs \cup started : r.n # n
        /\ \A m \in 1..(n - 1) : \E r \in runs \cup started : r.n = m

\* A run suspended at `await toTargets()`: it closed over `rule` and `rules`
NewRun(n, rule, trigger) ==
    [n |-> n, id |-> rule.id, trigger |-> trigger, rule |-> rule, snap |-> rules,
     pc |-> "running", fetched |-> FALSE, matched |-> <<>>, affected |-> 0,
     calls |-> <<>>, notified |-> 0, outcome |-> NullResult]

\* What the synchronous part of runRule, and of the runRule calls of one tick,
\* has done so far: the run-lock, the runs it started (each has called toTargets),
\* and the list it handed to persistRules (<<>> when it made no such call)
Acc(lock, started, written) ==
    [lock |-> lock, started |-> started, written |-> written]

MarkUnsupported(list, ruleId) ==
    [i \in 1..Len(list) |->
        IF list[i].id = ruleId
        THEN [list[i] EXCEPT !.lastResult = Result("", "Unsupported scope/action combination.", 0),
                             !.enabled = FALSE]
        ELSE list[i]]

\* runRule without the run-lock test of its first line
runRuleUnlocked(acc, ruleId, trigger, allowDisabled) ==
    IF ~HasRule(rules, ruleId) THEN acc
    ELSE LET rule == FindRule(rules, ruleId)
         IN  IF ~rule.enabled /\ ~allowDisabled THEN acc
             ELSE IF ~isActionSupportedForScope(rule.action, Nullish(rule.scope, "all"))
             THEN [acc EXCEPT !.written = <<MarkUnsupported(rules, rule.id)>>]
             ELSE [acc EXCEPT !.lock = @ \cup {ruleId},
                              !.started = @ \cup {NewRun(FreshRun(acc.started), rule, trigger)}]

\* runRule(ruleId, trigger, {allowDisabled}) of the render that closed over `rules`
runRule(acc, ruleId, trigger, allowDisabled) ==
    IF ruleId \in acc.lock THEN acc
    ELSE IF ~HasRule(rules, ruleId) THEN acc
    ELSE LET rule == FindRule(rules, ruleId)
         IN  IF ~rule.enabled /\ ~allowDisabled THEN acc
             ELSE IF ~isActionSupportedForScope(rule.action, Nullish(rule.scope, "all"))
             THEN [acc EXCEPT !.written = <<MarkUnsupported(rules, rule.id)>>]
             ELSE [acc EXCEPT !.lock = @ \cup {ruleId},
                              !.started = @ \cup {NewRun(FreshRun(acc.started), rule, trigger)}]

\* The state after the synchronous part
Commit(acc, timer) ==
    /\ runLock' = acc.lock
    /\ runs' = runs \cup acc.started
    /\ IF acc.written # <<>>
       THEN persistRules(acc.written[1])
       ELSE /\ UNCHANGED <<rules, stored>>
            /\ timerStart' = timer

\* Whether the tick finds the rule due
IsDue(rule, t) ==
    LET intervalMs == Max(1, rule.checkIntervalMinutes) * MS_PER_MINUTE
        last == IF rule.lastRunAt # 0 THEN rule.lastRunAt ELSE 0
    IN  t - last >= intervalMs

\* rules.forEach(...) of the interval callback
RECURSIVE TickFrom(_, _, _)
TickFrom(i, acc, t) ==
    IF i > Len(rules) THEN acc
    ELSE TickFrom(i + 1,
                  IF rules[i].enabled /\ IsDue(rules[i], t)
                  THEN runRule(acc, rules[i].id, "poll", FALSE)
                  ELSE acc,
                  t)

\* The setInterval callback of the scheduler effect
Tick ==
    /\ isLoaded
    /\ now - timerStart >= TICK_MS
    /\ Commit(TickFrom(1, Acc(runLock, {}, <<>>), now), now)
    /\ lastOp' = Op("tick", NoId)
    /\ UNCHANGED <<storageOk, probe, history>>
    /\ alert' = "none"
    /\ thrown' = "none"
    /\ UNCHANGED <<isLoaded, nOps, now, dialog, confirmed>>

-----------------------------------------------------------------------------
(* The user's operations *)

\* The screen is shown once the rules are loaded; an open Alert is modal
UserCan ==
    /\ isLoaded
    /\ dialog = NoDialog
    /\ nOps < MaxOps

UserDid(name, ruleId) ==
    /\ nOps' = nOps + 1
    /\ UNCHANGED <<storageOk, probe>>
    /\ history' = IF name = "deleteRule"
                  THEN [history EXCEPT !.deleted = @ \cup {ruleId}]
                  ELSE history
    /\ lastOp' = Op(name, ruleId)

\* runNow without its cooldown test
runNowUnthrottled(ruleId) ==
    /\ UserCan
    /\ UserDid("runNow", ruleId)
    /\ thrown' = "none"
    /\ alert' = "none"
    /\ IF ~HasRule(rules, ruleId)
       THEN UNCHANGED <<rules, stored, timerStart, runLock, runs>>
       ELSE Commit(runRule(Acc(runLock, {}, <<>>), ruleId, "manual", TRUE), timerStart)
    /\ UNCHANGED <<isLoaded, now, dialog, confirmed>>

runNow(ruleId) ==
    /\ UserCan
    /\ UserDid("runNow", ruleId)
    /\ thrown' = "none"
    /\ IF ~HasRule(rules, ruleId)
       THEN /\ alert' = "none"
            /\ UNCHANGED <<rules, stored, timerStart, runLock, runs>>
       ELSE LET rule == FindRule(rules, ruleId)
            IN  IF rule.lastRunAt # 0 /\ now - rule.lastRunAt < THROTTLE_MS
                THEN /\ alert' = "Throttled"
                     /\ UNCHANGED <<rules, stored, timerStart, runLock, runs>>
                ELSE /\ alert' = "none"
                     /\ Commit(runRule(Acc(runLock, {}, <<>>), ruleId, "manual", TRUE), timerStart)
    /\ UNCHANGED <<isLoaded, now, dialog, confirmed>>

\* addRuleFromPreset that appends a dangerous rule without asking
addRuleUnconfirmed(presetId) ==
    /\ UserCan
    /\ UserDid("addRuleFromPreset", NoId)
    /\ alert' = "none"
    /\ thrown' = "none"
    /\ IF \A k \in 1..Len(TORBOX_RULE_PRESETS) : TORBOX_RULE_PRESETS[k].id # presetId
       THEN UNCHANGED <<rules, stored, timerStart>>
       ELSE persistRules(Append(rules,
                createRuleFromPreset(
                    TORBOX_RULE_PRESETS[CHOOSE k \in 1..Len(TORBOX_RULE_PRESETS) :
                                            TORBOX_RULE_PRESETS[k].id = presetId], now)))
    /\ UNCHANGED <<isLoaded, runLock, runs, now, confirmed, dialog>>

addRuleFromPreset(presetId) ==
    /\ UserCan
    /\ UserDid("addRuleFromPreset", NoId)
    /\ alert' = "none"
    /\ thrown' = "none"
    /\ IF \A k \in 1..Len(TORBOX_RULE_PRESETS) : TORBOX_RULE_PRESETS[k].id # presetId
       THEN UNCHANGED <<rules, stored, timerStart, dialog>>
       ELSE LET preset == TORBOX_RULE_PRESETS[CHOOSE k \in 1..Len(TORBOX_RULE_PRESETS) :
                                                TORBOX_RULE_PRESETS[k].id = presetId]
                rule == createRuleFromPreset(preset, now)
            IN  IF rule.isDangerous
                THEN /\ dialog' = [kind |-> "Dangerous Rule", ruleId |-> rule.id,
                                   rule |-> <<rule>>, snap |-> rules]
                     /\ UNCHANGED <<rules, stored, timerStart>>
                ELSE /\ persistRules(Append(rules, rule))
                     /\ UNCHANGED dialog
    /\ UNCHANGED <<isLoaded, runLock, runs, now, confirmed>>

customRule(params, t) ==
    [id |-> RuleId("custom", t), enabled |-> FALSE,
     checkIntervalMinutes |-> Max(1, params.checkIntervalMinutes),
     conditions |-> params.conditions, action |-> params.action,
     scope |-> Nullish(params.scope, "all"),
     isDangerous |-> (params.action = "delete_download"), isCustom |-> TRUE,
     lastRunAt |-> 0, lastResult |-> NullResult, runCount |-> 0]

createCustomRule(params) ==
    /\ UserCan
    /\ UserDid("createCustomRule", NoId)
    /\ alert' = "none"
    /\ IF params.action \notin SUPPORTED_ACTION_SET
       THEN /\ thrown' = "Unsupported automation action"
            /\ UNCHANGED <<rules, stored, timerStart>>
       ELSE IF ~isActionSupportedForScope(params.action, Nullish(params.scope, "all"))
       THEN /\ thrown' = "This action is not supported for the selected scope."
            /\ UNCHANGED <<rules, stored, timerStart>>
       ELSE /\ thrown' = "none"
            /\ persistRules(Append(rules, customRule(params, now)))
    /\ UNCHANGED <<isLoaded, runLock, runs, now, dialog, confirmed>>

SetEnabled(list, ruleId, enabled) ==
    [i \in 1..Len(list) |->
        IF list[i].id = ruleId THEN [list[i] EXCEPT !.enabled = enabled] ELSE list[i]]

toggleRule(ruleId, enabled) ==
    /\ UserCan
    /\ UserDid("toggleRule", ruleId)
    /\ thrown' = "none"
    /\ IF ~HasRule(rules, ruleId)
       THEN /\ alert' = "none"
            /\ UNCHANGED <<rules, stored, timerStart, dialog>>
       ELSE LET rule == FindRule(rules, ruleId)
            IN  IF enabled /\ ~isActionSupportedForScope(rule.action, Nullish(rule.scope, "all"))
                THEN /\ alert' = "Unsupported Rule"
                     /\ UNCHANGED <<rules, stored, timerStart, dialog>>
                ELSE IF enabled /\ rule.isDangerous
                THEN /\ alert' = "none"
                     /\ dialog' = [kind |-> "Enable Dangerous Rule", ruleId |-> ruleId,
                                   rule |-> <<>>, snap |-> rules]
                     /\ UNCHANGED <<rules, stored, timerStart>>
                ELSE /\ alert' = "none"
                     /\ persistRules(SetEnabled(rules, ruleId, enabled))
                     /\ UNCHANGED dialog
    /\ UNCHANGED <<isLoaded, runLock, runs, now, confirmed>>

\* { ...r, ...updates }
Merge(r, updates) ==
    [r EXCEPT !.checkIntervalMinutes = OrElse(updates.checkIntervalMinutes, @),
              !.action = OrElse(updates.action, @),
              !.scope = OrElse(updates.scope, @)]

updateRule(ruleId, updates) ==
    /\ UserCan
    /\ UserDid("updateRule", ruleId)
    /\ thrown' = "none"
    /\ IF ~HasRule(rules, ruleId)
       THEN /\ alert' = "none"
            /\ UNCHANGED <<rules, stored, timerStart>>
       ELSE LET existing == FindRule(rules, ruleId)
                nextAction == OrElse(updates.action, existing.action)
                nextScope == OrElse(updates.scope, Nullish(existing.scope, "all"))
            IN  IF ~isActionSupportedForScope(nextAction, nextScope)
                THEN /\ alert' = "Unsupported Rule"
                     /\ UNCHANGED <<rules, stored, timerStart>>
                ELSE /\ alert' = "none"
                     /\ persistRules([i \in 1..Len(rules) |->
                                        IF rules[i].id = ruleId
                                        THEN Merge(rules[i], updates) ELSE rules[i]])
    /\ UNCHANGED <<isLoaded, runLock, runs, now, dialog, confirmed>>

Without(list, ruleId) ==
    LET F[i \in 0..Len(list)] ==
            IF i = 0 THEN <<>>
            ELSE IF list[i].id # ruleId THEN Append(F[i - 1], list[i]) ELSE F[i - 1]
    IN  F[Len(list)]

deleteRule(ruleId) ==
    /\ UserCan
    /\ UserDid("deleteRule", ruleId)
    /\ alert' = "none"
    /\ thrown' = "none"
    /\ persistRules(Without(rules, ruleId))
    /\ UNCHANGED <<isLoaded, runLock, runs, now, dialog, confirmed>>

\* The destructive button of the open Alert
DialogAccept ==
    /\ dialog # NoDialog
    /\ IF dialog.kind = "Dangerous Rule"
       THEN /\ persistRules(Append(dialog.snap, dialog.rule[1]))
            /\ UNCHANGED confirmed
       ELSE /\ persistRules(SetEnabled(dialog.snap, dialog.ruleId, TRUE))
            /\ confirmed' = confirmed \cup {dialog.ruleId}
    /\ dialog' = NoDialog
    /\ lastOp' = Op("accept", dialog.ruleId)
    /\ UNCHANGED <<storageOk, probe, history>>
    /\ alert' = "none"
    /\ thrown' = "none"
    /\ UNCHANGED <<isLoaded, runLock, runs, nOps, now>>

\* The Cancel button of the open Alert
DialogCancel ==
    /\ dialog # NoDialog
    /\ dialog' = NoDialog
    /\ lastOp' = Op("cancel", dialog.ruleId)
    /\ UNCHANGED <<storageOk, probe, history>>
    /\ alert' = "none"
    /\ thrown' = "none"
    /\ UNCHANGED <<rules, stored, isLoaded, runLock, runs, nOps, now, timerStart,
                   confirmed>>


-----------------------------------------------------------------------------
(* A run after its first await *)

\* rules.map(r => r.id === rule.id ? {...r, lastRunAt, runCount: r.runCount + 1, lastResult} : r)
WithRunResult(list, ruleId, t, result) ==
    [i \in 1..Len(list) |->
        IF list[i].id = ruleId
        THEN [list[i] EXCEPT !.lastRunAt = t, !.runCount = @ + 1, !.lastResult = result]
        ELSE list[i]]

Matching(rule, list, t) ==
    LET F[i \in 0..Len(list)] ==
            IF i = 0 THEN <<>>
            ELSE IF matchesRule(rule, list[i], t) THEN Append(F[i - 1], list[i]) ELSE F[i - 1]
    IN  F[Len(list)]

\* executeAction(rule, targets): the calls made, whether one threw, the number of
\* notifications appended and, when nothing threw, the summary returned
\* An executor that appends a notification for every target it counted
executeActionNotifyingEach(rule, targets, bad, notifyOk) ==
    LET loop == ExecuteLoop(rule.action, targets, bad, 1, 0, <<>>)
    IN  [calls |-> loop.calls,
         affected |-> loop.affected,
         notified |-> IF notifyOk THEN loop.affected ELSE 0,
         threw |-> loop.threw \/ (loop.affected > 0 /\ ~notifyOk),
         message |-> IF loop.threw THEN "Request failed" ELSE "Storage failed",
         summary |-> Summary(targets, loop.affected)]

executeAction(rule, targets, bad, notifyOk) ==
    LET loop == ExecuteLoop(rule.action, targets, bad, 1, 0, <<>>)
        appends == targets # <<>> /\ ~loop.threw /\ loop.affected > 0
    IN  [calls |-> loop.calls,
         affected |-> loop.affected,
         notified |-> IF appends /\ notifyOk THEN 1 ELSE 0,
         threw |-> loop.threw \/ (appends /\ ~notifyOk),
         message |-> IF loop.threw THEN "Request failed" ELSE "Storage failed",
         summary |-> Summary(targets, loop.affected)]

\* The run after executeAction returned or threw
Recorded(run, targets, done) ==
    [run EXCEPT
        !.pc = "save", !.fetched = TRUE,
        !.matched = [i \in 1..Len(targets) |->
                        [source |-> targets[i].source,
                         sourceId |-> targets[i].sourceId,
                         fileIds |-> targets[i].fileIds]],
        !.affected = done.affected, !.calls = done.calls,
        !.notified = done.notified,
        !.outcome = IF done.threw THEN Result("Failed: ", done.message, 0)
                    ELSE Result(IF run.trigger = "manual" THEN "Manual run: "
                                ELSE "Scheduled run: ",
                                done.summary.text, done.summary.n)]

\* What the body of the try block comes to, from `await toTargets()` to the
\* persistRules of the try or of the catch.  Its awaits touch no state of the
\* provider, so the step is taken when the last of them settles.
\*   failing: the list fetch that rejected ("none": the lists of `remote` arrived)
\*   bad:     the matched targets whose remote call throws
Executed(run, targets, bad, notifyOk) ==
    Recorded(run, targets, executeAction(run.rule, targets, bad, notifyOk))

RunOutcome(run, failing, remote, bad, notifyOk, t) ==
    IF failing # "none"
    THEN [run EXCEPT !.pc = "save", !.outcome = Result("Failed: ", "Network request failed", 0)]
    ELSE Executed(run, Matching(run.rule, toTargets(remote, t), t), bad, notifyOk)

\* persistRules(next) of the try or of the catch
SaveResult(run, after) ==
    /\ persistRules(WithRunResult(run.snap, run.rule.id, now, after.outcome))
    /\ runs' = (runs \ {run}) \cup {after}

\* The run records its result and awaits the save
RunSettled(run, failing, remote, bad, notifyOk) ==
    /\ run.pc = "running"
    /\ SaveResult(run, RunOutcome(run, failing, remote, bad, notifyOk, now))
    /\ lastOp' = Op("settled", NoId)
    /\ UNCHANGED <<storageOk, probe>>
    /\ history' = IF run.trigger = "poll"
                  THEN [history EXCEPT !.done = {d \in @ : d.id # run.id}
                                                \cup {[id |-> run.id, at |-> now]}]
                  ELSE history
    /\ alert' = "none"
    /\ thrown' = "none"
    /\ UNCHANGED <<isLoaded, runLock, nOps, now, dialog, confirmed>>

\* A run that ends without its finally block
RunFinishKeepingLock(run) ==
    /\ run.pc = "save"
    /\ alert' = IF run.trigger # "manual" THEN "none"
                ELSE IF run.outcome.prefix = "Failed: " THEN "Rule Failed" ELSE "Rule Executed"
    /\ runLock' = runLock
    /\ runs' = runs \ {run}
    /\ lastOp' = Op("finished", NoId)
    /\ UNCHANGED <<storageOk, probe, history>>
    /\ thrown' = "none"
    /\ UNCHANGED <<rules, stored, isLoaded, nOps, now, timerStart, dialog, confirmed>>

\* The save settles: the Alert of a manual run, then the finally block
RunFinish(run) ==
    /\ run.pc = "save"
    /\ alert' = IF run.trigger # "manual" THEN "none"
                ELSE IF run.outcome.prefix = "Failed: " THEN "Rule Failed" ELSE "Rule Executed"
    /\ runLock' = runLock \ {run.id}
    /\ runs' = runs \ {run}
    /\ lastOp' = Op("finished", NoId)
    /\ UNCHANGED <<storageOk, probe, history>>
    /\ thrown' = "none"
    /\ UNCHANGED <<rules, stored, isLoaded, nOps, now, timerStart, dialog, confirmed>>

-----------------------------------------------------------------------------

OpIds == Ids(rules)
Fetches == {"none", "torrents", "usenet", "web downloads"}
MaxTargets == 1 + 1     \* the longest list a state of RemoteStates gives

\* What the remote service and the notification store do to one run
Outcomes ==
    [failing : Fetches \ {"none"}, remote : {CHOOSE r \in RemoteStates : TRUE},
     bad : {{}}, notifyOk : {TRUE}]
    \cup [failing : {"none"}, remote : RemoteStates, bad : SUBSET (1..MaxTargets),
          notifyOk : BOOLEAN]

Next ==
    \/ ClockTick
    \/ \E ok \in BOOLEAN : LoadRules(ok)
    \/ Tick
    \/ \E id \in OpIds : runNow(id)
    \/ \E presetId \in PresetPool : addRuleFromPreset(presetId)
    \/ \E params \in CustomParams : createCustomRule(params)
    \/ \E id \in OpIds, enabled \in BOOLEAN : toggleRule(id, enabled)
    \/ \E id \in OpIds, updates \in UpdatePool : updateRule(id, updates)
    \/ \E id \in OpIds : deleteRule(id)
    \/ DialogAccept
    \/ DialogCancel
    \/ \E run \in runs, env \in Outcomes :
            RunSettled(run, env.failing, env.remote, env.bad, env.notifyOk)
    \/ \E run \in runs : RunFinish(run)

Spec == Init /\ [][Next]_vars

\* The scheduler and manual runs alone, over a rule list that no edit changes
\* and a storage that accepts every save
NextTrigger ==
    \/ ClockTick
    \/ \E ok \in BOOLEAN : LoadRules(ok)
    \/ Tick
    \/ \E id \in OpIds : runNow(id)
    \/ \E run \in runs, env \in Outcomes :
            RunSettled(run, env.failing, env.remote, env.bad, env.notifyOk)
    \/ \E run \in runs : RunFinish(run)

InitTrigger == Init /\ storageOk

SpecTrigger == InitTrigger /\ [][NextTrigger]_vars

\* The scheduler and manual runs over a stored list that holds two enabled
\* reannounce rules of a scope other than torrent, next to a pause rule
InitLegacy ==
    /\ stored = <<SavedReannounceWeb, SavedReannounceUsenet, SavedPause>>
    /\ rules = <<>>
    /\ isLoaded = FALSE
    /\ runLock = {}
    /\ runs = {}
    /\ nOps = 0
    /\ now = Epoch
    /\ timerStart = Epoch
    /\ dialog = NoDialog
    /\ alert = "none"
    /\ thrown = "none"
    /\ lastOp = Op("mount", NoId)
    /\ storageOk = TRUE
    /\ probe = NoProbe
    /\ history = NoHistory
    /\ confirmed = {}

SpecLegacy == InitLegacy /\ [][NextTrigger]_vars

\* The operations that edit the rule list alone: no run is started
NextStore ==
    \/ ClockTick
    \/ \E ok \in BOOLEAN : LoadRules(ok)
    \/ \E presetId \in PresetPool : addRuleFromPreset(presetId)
    \/ \E params \in CustomParams : createCustomRule(params)
    \/ \E id \in OpIds, enabled \in BOOLEAN : toggleRule(id, enabled)
    \/ \E id \in OpIds, updates \in UpdatePool : updateRule(id, updates)
    \/ \E id \in OpIds : deleteRule(id)
    \/ DialogAccept
    \/ DialogCancel

SpecStore == Init /\ [][NextStore]_vars

\* Rule creation alone, in a session in which the user acts once more than
\* MaxOps times, so that two rules can be created one after the other
InitCreate ==
    /\ stored \in PersistedAtStart
    /\ rules = <<>>
    /\ isLoaded = FALSE
    /\ runLock = {}
    /\ runs = {}
    /\ nOps = 0 - 1
    /\ now = Epoch
    /\ timerStart = Epoch
    /\ dialog = NoDialog
    /\ alert = "none"
    /\ thrown = "none"
    /\ lastOp = Op("mount", NoId)
    /\ storageOk \in BOOLEAN
    /\ probe = NoProbe
    /\ history = NoHistory
    /\ confirmed = {}

NextCreate ==
    \/ ClockTick
    \/ \E ok \in BOOLEAN : LoadRules(ok)
    \/ \E presetId \in PresetPool : addRuleFromPreset(presetId)
    \/ \E params \in CustomParams : createCustomRule(params)
    \/ DialogAccept
    \/ DialogCancel

SpecCreate == InitCreate /\ [][NextCreate]_vars

-----------------------------------------------------------------------------
(* matchesRule and executeAction called directly *)

ProbeRule(scope, conditions, action) ==
    [customRule(Params(1, conditions, action, "all"), Epoch) EXCEPT !.scope = scope]

ProbeScopes == {"undefined", "all", "torrent", "usenet", "web"}

ProbeConditions ==
    { <<>>,
      <<Cond("progress", "equals", "1")>>,
      <<Cond("status", "contains", " ")>>,
      <<Cond("status", "contains", " "), Cond("progress", "equals", "1")>>,
      <<Cond("progress", "equals", "1"), Cond("download_type", "equals", "torrent")>> }

\* The targets toTargets makes of two torrents, a usenet item and a web download
ProbeTargets ==
    toTargets([torrents |-> <<TorrentMovie, TorrentPaused>>, usenet |-> <<UsenetBook>>,
               web |-> <<WebFile>>], Epoch)

MatchProbes ==
    { [fn |-> "matchesRule", rule |-> ProbeRule(scope, conditions, "notify_user"),
       targets |-> <<ProbeTargets[i]>>, bad |-> {}, notifyOk |-> TRUE,
       done |-> FALSE, matches |-> FALSE, out |-> <<>>] :
        scope \in ProbeScopes, conditions \in ProbeConditions, i \in 1..Len(ProbeTargets) }

ExecProbes ==
    { [fn |-> "executeAction", rule |-> ProbeRule(scope, <<>>, ALL_ACTIONS[a]),
       targets |-> SubSeq(ProbeTargets, from, Len(ProbeTargets)), bad |-> bad,
       notifyOk |-> notifyOk, done |-> FALSE, matches |-> FALSE, out |-> <<>>] :
        scope \in ProbeScopes, a \in 1..Len(ALL_ACTIONS), from \in {1, 2, 3, 5},
        bad \in SUBSET (1..3), notifyOk \in BOOLEAN }

\* Field values and rule values compareValues is called with
CompareLefts ==
    { Num(N(1)), Num(4), Num(N(100)),
      Str(<<"B", "e", "t", "a">>), Str(<<"a", "l", "p", "h", "a">>),
      Str(<<"1", "0", "0">>), Str(<<>>) }
CompareRights ==
    { <<"1">>, <<"1", "0", "0">>, <<"0", ".", "4">>, <<"2", "0">>,
      <<"a", "l", "p", "h", "a">>, <<"A", "l", "p", "h", "a">>,
      <<"b", "e", "t", "a">>, <<"e", "T">> }
Operators ==
    {"equals", "not_equals", "greater_than", "less_than", "greater_than_or_equal",
     "less_than_or_equal", "contains"}

CompareProbes ==
    { [fn |-> "compareValues", left |-> left, rightRaw |-> rightRaw,
       operator |-> operator, done |-> FALSE, matches |-> FALSE] :
        left \in CompareLefts, rightRaw \in CompareRights, operator \in Operators }

InitProbe ==
    /\ probe \in MatchProbes \cup ExecProbes \cup CompareProbes
    /\ stored = <<>>
    /\ rules = <<>>
    /\ isLoaded = FALSE
    /\ runLock = {}
    /\ runs = {}
    /\ nOps = 0
    /\ now = Epoch
    /\ timerStart = Epoch
    /\ dialog = NoDialog
    /\ alert = "none"
    /\ thrown = "none"
    /\ lastOp = Op("mount", NoId)
    /\ storageOk = TRUE
    /\ confirmed = {}
    /\ history = NoHistory

\* matchesRule(rule, target)
CallMatchesRule ==
    /\ probe.fn = "matchesRule"
    /\ ~probe.done
    /\ probe' = [probe EXCEPT !.done = TRUE,
                              !.matches = matchesRule(probe.rule, probe.targets[1], now)]
    /\ lastOp' = Op("matchesRule", NoId)
    /\ UNCHANGED <<rules, stored, isLoaded, runLock, runs, nOps, now, timerStart,
                   dialog, alert, thrown, confirmed, storageOk, history>>

\* executeAction(rule, targets)
CallExecuteAction ==
    /\ probe.fn = "executeAction"
    /\ ~probe.done
    /\ probe' = [probe EXCEPT !.done = TRUE,
                              !.out = <<executeAction(probe.rule, probe.targets,
                                                      probe.bad, probe.notifyOk)>>]
    /\ lastOp' = Op("executeAction", NoId)
    /\ UNCHANGED <<rules, stored, isLoaded, runLock, runs, nOps, now, timerStart,
                   dialog, alert, thrown, confirmed, storageOk, history>>

\* compareValues(left, rightRaw, operator)
CallCompareValues ==
    /\ probe.fn = "compareValues"
    /\ ~probe.done
    /\ probe' = [probe EXCEPT !.done = TRUE,
                              !.matches = compareValues(probe.left, probe.rightRaw,
                                                        probe.operator)]
    /\ lastOp' = Op("compareValues", NoId)
    /\ UNCHANGED <<rules, stored, isLoaded, runLock, runs, nOps, now, timerStart,
                   dialog, alert, thrown, confirmed, storageOk, history>>

NextProbe == CallMatchesRule \/ CallExecuteAction \/ CallCompareValues

SpecProbe == InitProbe /\ [][NextProbe]_vars

-----------------------------------------------------------------------------
(* Properties *)

\* The run that a settle step moved from "running" to "save", before and after
SettledBefore == CHOOSE r \in runs : r \notin runs'
SettledAfter == CHOOSE r \in runs' : r \notin runs

\* C1: at most one run of a rule is in flight at a time, every run in flight
\* holds the run-lock, and a trigger (scheduler tick or runNow) that arrives while
\* the rule's id is in the run-lock starts no run for it (no snapshot fetch, no
\* remote call) and writes nothing to the store for it.
C1_OneRunPerRule ==
    [][ /\ \A r1, r2 \in runs' : r1.id = r2.id => r1 = r2
        /\ \A r \in runs' : r.id \in runLock'
        /\ lastOp'.op \in {"tick", "runNow"} =>
                \A r \in runs' \ runs : r.id \notin runLock
        /\ lastOp'.op = "runNow" /\ lastOp'.id \in runLock /\ alert' = "none" =>
                UNCHANGED <<rules, stored, runs, runLock>>
        /\ lastOp'.op = "tick" =>
                \A i \in 1..Len(rules) :
                    rules[i].id \in runLock =>
                        Len(rules') = Len(rules) /\ rules'[i] = rules[i]
      ]_vars

\* A runNow arrived for a rule that a scheduled run holds locked
C1_Witness ==
    /\ lastOp.op = "runNow"
    /\ lastOp.id \in runLock
    /\ alert = "none"
    /\ \E r \in runs : r.id = lastOp.id /\ r.trigger = "poll" /\ r.pc = "running"

\* C2: when a run completes, the store is the store as it was just before with
\* that rule's runCount one higher, lastRunAt the completion time and lastResult
\* the run's result; what other runs and the user wrote in between is kept.
C2_HistoryKept ==
    [][ lastOp'.op = "settled" =>
            rules' = WithRunResult(rules, SettledBefore.id, now, SettledAfter.outcome)
      ]_vars

\* C3: no run (snapshot fetch, remote calls) is made for a rule whose enabled
\* flag was false when it was triggered.
C3_OnlyEnabledRun == \A r \in runs : r.rule.enabled

\* C4: a rule whose action is delete_download is enabled only if the user
\* accepted the 'Enable Dangerous Rule' confirmation for it.
C4_DeleteNeedsConfirmation ==
    \A i \in 1..Len(rules) :
        rules[i].action = "delete_download" /\ rules[i].enabled
            => rules[i].id \in confirmed

\* C5: every preset instantiates to a rule with enabled = false, and the rule that
\* addRuleFromPreset (at once, or on accepting the 'Dangerous Rule' dialog) or
\* createCustomRule appends to the store has enabled = false.
C5_NewRulesDisabled ==
    [][ /\ \A k \in 1..Len(TORBOX_RULE_PRESETS) :
                ~createRuleFromPreset(TORBOX_RULE_PRESETS[k], now).enabled
        /\ ( /\ \/ lastOp'.op \in {"addRuleFromPreset", "createCustomRule"}
                \/ lastOp'.op = "accept" /\ dialog.kind = "Dangerous Rule"
             /\ rules' # rules )
           => /\ Len(rules') > 0
              /\ ~rules'[Len(rules')].enabled
              /\ \A i \in 1..Len(rules') :
                    rules'[i].id \notin Ids(rules) \cup Ids(dialog.snap)
                        => ~rules'[i].enabled
      ]_vars

\* addRuleFromPreset has just appended a rule
C5_Witness ==
    /\ lastOp.op = "addRuleFromPreset"
    /\ Len(rules) > 0
    /\ rules[Len(rules)].id = RuleId("completed_notify", now)
    /\ ~rules[Len(rules)].enabled

\* C6: every rule of the store with action reannounce_torrent has scope torrent.
C6_ReannounceIsTorrent ==
    \A i \in 1..Len(rules) :
        rules[i].action = "reannounce_torrent"
            => Nullish(rules[i].scope, "all") = "torrent"

\* C7: createCustomRule and updateRule whose result would be a reannounce_torrent
\* rule with a scope other than torrent are rejected (createCustomRule throws,
\* updateRule raises the 'Unsupported Rule' alert) and leave the rule list in
\* memory and the persisted list unchanged.
C7_IllegalPairRejected ==
    [][ /\ \A params \in CustomParams :
                ( /\ createCustomRule(params)
                  /\ params.action = "reannounce_torrent"
                  /\ Nullish(params.scope, "all") # "torrent" )
                => /\ thrown' = "This action is not supported for the selected scope."
                   /\ UNCHANGED <<rules, stored>>
        /\ \A id \in Ids(rules), updates \in UpdatePool :
                ( /\ updateRule(id, updates)
                  /\ Merge(FindRule(rules, id), updates).action = "reannounce_torrent"
                  /\ Nullish(Merge(FindRule(rules, id), updates).scope, "all") # "torrent" )
                => /\ alert' = "Unsupported Rule"
                   /\ UNCHANGED <<rules, stored>>
      ]_vars

\* updateRule has just refused a change of action to reannounce_torrent
C7_Witness ==
    /\ lastOp.op = "updateRule"
    /\ alert = "Unsupported Rule"
    /\ HasRule(rules, lastOp.id)
    /\ FindRule(rules, lastOp.id).action # "reannounce_torrent"

\* C8: runNow for a rule whose lastRunAt is less than 30 seconds before now
\* starts no run, changes no rule and raises the 'Throttled' alert, whether or
\* not a run of that rule is in flight.
C8_Throttled ==
    [][ ( /\ lastOp'.op = "runNow"
          /\ HasRule(rules, lastOp'.id)
          /\ FindRule(rules, lastOp'.id).lastRunAt # 0
          /\ now - FindRule(rules, lastOp'.id).lastRunAt < THROTTLE_MS )
        => /\ alert' = "Throttled"
           /\ UNCHANGED <<rules, stored, runs, runLock>>
      ]_vars

\* runNow was throttled while a run of the rule was still in flight
C8_Witness ==
    /\ lastOp.op = "runNow"
    /\ alert = "Throttled"
    /\ lastOp.id \in runLock
    /\ \E r \in runs : r.id = lastOp.id

\* C9: when a list fetch of a run fails, nothing is matched and no remote call is
\* made, the rule's lastResult becomes 'Failed: <message>' and its runCount is one
\* more than it was in the store.
C9_FetchFailure ==
    [][ ( /\ lastOp'.op = "settled"
          /\ ~SettledAfter.fetched
          /\ HasRule(rules, SettledBefore.id) )
        => /\ SettledAfter.matched = <<>>
           /\ SettledAfter.calls = <<>>
           /\ HasRule(rules', SettledBefore.id)
           /\ FindRule(rules', SettledBefore.id).lastResult.prefix = "Failed: "
           /\ FindRule(rules', SettledBefore.id).runCount
                = FindRule(rules, SettledBefore.id).runCount + 1
      ]_vars

\* C10: a run whose lists arrived has attempted the remote call on every matched
\* target that the action calls for, also when one of the calls threw.
C10_BatchNotAborted ==
    \A r \in runs :
        r.pc = "save" /\ r.fetched
            => Len(r.calls) = Cardinality({i \in 1..Len(r.matched) :
                                            NeedsCall(r.rule.action, r.matched[i])})

\* C11: a rule that is disabled stays disabled until the user enables it (toggleRule
\* with enabled = true, at once or through the 'Enable Dangerous Rule' dialog):
\* no other step, the completion of a run that was in flight when the rule was
\* disabled included, turns a disabled rule of the store into an enabled one, so
\* that no tick starts a run of it.
C11_StaysDisabled ==
    [][ ~( \/ lastOp'.op = "toggleRule"
           \/ lastOp'.op = "accept" /\ dialog.kind = "Enable Dangerous Rule" )
        => \A i \in 1..Len(rules), j \in 1..Len(rules') :
                rules[i].id = rules'[j].id /\ ~rules[i].enabled => ~rules'[j].enabled
      ]_vars

\* C12: at a scheduler tick a rule is triggered if and only if it is enabled and
\* its lastRunAt is null or now - lastRunAt >= max(1, checkIntervalMinutes) * 60000.
\* A triggered rule that is not locked and whose action/scope pair is supported
\* starts a run; a rule that is not triggered starts none and is left as it is.
C12_TickTriggersDue ==
    [][ lastOp'.op = "tick" =>
            \A i \in 1..Len(rules) :
                LET rule == rules[i]
                    due == \/ rule.lastRunAt = 0
                           \/ now - rule.lastRunAt
                                >= Max(1, rule.checkIntervalMinutes) * MS_PER_MINUTE
                    started == \E r \in runs' \ runs : r.id = rule.id
                IN  /\ ( /\ rule.id \notin runLock
                         /\ isActionSupportedForScope(rule.action, Nullish(rule.scope, "all")) )
                       => (started <=> rule.enabled /\ due)
                    /\ ~(rule.enabled /\ due) => ~started /\ rules'[i] = rule
      ]_vars

\* C13: addRuleFromPreset on a dangerous preset writes nothing and opens the
\* 'Dangerous Rule' confirmation; declining it leaves the rule list in memory and
\* the persisted list unchanged, and only accepting it appends the rule.
C13_DangerousPresetConfirmed ==
    [][ /\ \A presetId \in PresetPool :
            ( /\ addRuleFromPreset(presetId)
              /\ \E k \in 1..Len(TORBOX_RULE_PRESETS) :
                    /\ TORBOX_RULE_PRESETS[k].id = presetId
                    /\ TORBOX_RULE_PRESETS[k].isDangerous )
            => /\ UNCHANGED <<rules, stored>>
               /\ dialog'.kind = "Dangerous Rule"
        /\ lastOp'.op = "cancel" => UNCHANGED <<rules, stored>>
        /\ lastOp'.op = "accept" /\ dialog.kind = "Dangerous Rule"
            => /\ Len(rules') > 0
               /\ rules'[Len(rules')] = dialog.rule[1]
               /\ rules'[Len(rules')].isDangerous
      ]_vars

\* The user declined the confirmation of a dangerous preset
C13_Witness ==
    /\ lastOp.op = "cancel"
    /\ lastOp.id.p = "delete_very_old_completed"
    /\ dialog = NoDialog
    /\ ~HasRule(rules, lastOp.id)
    /\ ~HasRule(stored, lastOp.id)

C15_CompletedMatchesOne ==
    \A r \in runs :
        ( /\ r.pc = "save"
          /\ r.fetched
          /\ r.rule.conditions = <<Cond("progress", "equals", "100")>>
          /\ r.rule.action = "notify_user"
          /\ Nullish(r.rule.scope, "all") = "all" )
        => /\ Len(r.matched) = 1
           /\ r.affected = 1
           /\ r.outcome.prefix = "Failed: "
                \/ (r.notified = 1 /\ r.outcome.text = "Processed n item." /\ r.outcome.n = 1)

\* The positions of the torrents in a list of targets
TorrentsOf(targets) == {i \in 1..Len(targets) : targets[i].source = "torrent"}

C17_SaveFailureNotRolledBack ==
    [][ ~storageOk =>
        /\ \A params \in CustomParams :
              createCustomRule(params) /\ thrown' = "none"
              => /\ Len(rules') = Len(rules) + 1
                 /\ rules'[Len(rules')] = customRule(params, now)
                 /\ stored' = stored
        /\ \A presetId \in PresetPool :
              addRuleFromPreset(presetId) /\ dialog' = NoDialog
                /\ (\E k \in 1..Len(TORBOX_RULE_PRESETS) : TORBOX_RULE_PRESETS[k].id = presetId)
              => /\ Len(rules') = Len(rules) + 1
                 /\ rules'[Len(rules')].id.p = presetId
                 /\ thrown' = "none"
                 /\ stored' = stored
        /\ \A id \in OpIds, updates \in UpdatePool :
              updateRule(id, updates) /\ alert' = "none"
              => /\ Len(rules') = Len(rules)
                 /\ \A i \in 1..Len(rules) :
                        rules[i].id = id => rules'[i] = Merge(rules[i], updates)
                 /\ thrown' = "none"
                 /\ stored' = stored
        /\ \A id \in OpIds, enabled \in BOOLEAN :
              toggleRule(id, enabled) /\ alert' = "none" /\ dialog' = NoDialog
              => /\ Len(rules') = Len(rules)
                 /\ \A i \in 1..Len(rules) : rules[i].id = id => rules'[i].enabled = enabled
                 /\ thrown' = "none"
                 /\ stored' = stored
        /\ \A id \in OpIds :
              deleteRule(id)
              => /\ id \notin Ids(rules')
                 /\ Len(rules') < Len(rules)
                 /\ thrown' = "none"
                 /\ stored' = stored
        /\ lastOp'.op = "accept"
              => /\ \E i \in 1..Len(rules') :
                        /\ rules'[i].id = dialog.ruleId
                        /\ dialog.kind = "Enable Dangerous Rule" => rules'[i].enabled
                 /\ thrown' = "none"
                 /\ stored' = stored
        /\ lastOp'.op = "settled"
              => /\ \E run \in runs :
                        /\ run.pc = "running"
                        /\ Len(rules') = Len(run.snap)
                        /\ \A i \in 1..Len(run.snap) :
                              run.snap[i].id = run.rule.id
                              => /\ rules'[i].lastRunAt = now
                                 /\ rules'[i].runCount = run.snap[i].runCount + 1
                 /\ thrown' = "none"
                 /\ stored' = stored ]_vars

\* Storage rejects the save of a run's result: the rule in memory carries the
\* run, the stored copy of it does not, and nothing was thrown
C17_Witness ==
    /\ ~storageOk
    /\ lastOp.op = "settled"
    /\ thrown = "none"
    /\ \E i \in 1..Len(rules), j \in 1..Len(stored) :
          /\ rules[i].id = stored[j].id
          /\ rules[i].lastRunAt = now
          /\ rules[i].runCount = stored[j].runCount + 1

\* C18: toggleRule, updateRule, addRuleFromPreset, createCustomRule and
\* deleteRule, the accepted or cancelled confirmation of one of them included,
\* leave lastRunAt, lastResult and runCount of every rule that stays in the
\* list as they were.
C18_EditsKeepHistory ==
    [][ lastOp'.op \in {"toggleRule", "updateRule", "addRuleFromPreset", "createCustomRule",
                        "deleteRule", "accept", "cancel"}
        => \A i \in 1..Len(rules), j \in 1..Len(rules') :
              rules[i].id = rules'[j].id
              => /\ rules'[j].lastRunAt = rules[i].lastRunAt
                 /\ rules'[j].lastResult = rules[i].lastResult
                 /\ rules'[j].runCount = rules[i].runCount ]_vars

\* C19: the scheduler tick keeps its cadence whatever happens to the rules:
\* the moment from which the 30 s to the next tick are counted is set when the
\* rules are loaded and when the tick fires, and no edit of the rule list and
\* no recorded run result moves it, so that a rule that stays enabled and due
\* is reached by a tick one period later at the latest.
C19_TickCadenceFixed ==
    [][ isLoaded /\ lastOp'.op \notin {"tick", "load"} => timerStart' = timerStart ]_vars

\* A value made of blanks alone (the empty value included)
BlankValue(value) == \A k \in 1..Len(Spell(value)) : Spell(value)[k] = " "

\* C20: matchesRule(rule, target) is true exactly when the rule's scope is
\* unset, 'all' or the target's source, and every condition whose value is not
\* blank compares true; so a rule without conditions and with scope all matches
\* every target, and a rule of another source's scope matches none.
C20_MatchesScopeAndAllConditions ==
    (probe.fn = "matchesRule" /\ probe.done)
    => LET rule == probe.rule
           target == probe.targets[1]
           scopeAdmits == rule.scope \in {"undefined", "all", target.source}
           failing == {k \in 1..Len(rule.conditions) :
                          /\ ~BlankValue(rule.conditions[k].value)
                          /\ ~compareValues(FieldValue(rule.conditions[k].field, target, now),
                                            Spell(rule.conditions[k].value),
                                            rule.conditions[k].operator)}
       IN  /\ probe.matches <=> (scopeAdmits /\ failing = {})
           /\ rule.conditions = <<>> /\ rule.scope = "all" => probe.matches
           /\ ~scopeAdmits => ~probe.matches

\* A torrent-scoped rule matches a finished torrent through a blank condition
\* that would compare false and a second condition that compares true
C20_Witness ==
    /\ probe.fn = "matchesRule"
    /\ probe.done
    /\ probe.matches
    /\ probe.rule.scope = "torrent"
    /\ Len(probe.rule.conditions) = 2
    /\ BlankValue(probe.rule.conditions[1].value)
    /\ ~compareValues(FieldValue(probe.rule.conditions[1].field, probe.targets[1], now),
                      Spell(probe.rule.conditions[1].value),
                      probe.rule.conditions[1].operator)
    /\ ~BlankValue(probe.rule.conditions[2].value)

\* The UTF-16 order of the characters that occur
CodeUnits == <<" ", "-", ".">> \o Digits \o UpperCase \o LowerCase
CodeOf(c) == CHOOSE i \in 1..Len(CodeUnits) : CodeUnits[i] = c

\* a < b for two strings
RECURSIVE StringLess(_, _)
StringLess(a, b) ==
    IF b = <<>> THEN FALSE
    ELSE IF a = <<>> THEN TRUE
    ELSE IF Head(a) # Head(b) THEN CodeOf(Head(a)) < CodeOf(Head(b))
    ELSE StringLess(Tail(a), Tail(b))

\* The comparison of two finite numbers, or else of two lower-cased strings
ComparedAs(left, rightRaw, operator) ==
    LET ln == ToNumber(left)
        rn == NumberOfString(rightRaw)
        numeric == isFinite(ln) /\ isFinite(rn)
        ls == toLowerCase(StringOf(left))
        rs == toLowerCase(rightRaw)
        eq == IF numeric THEN ln.v = rn.v ELSE ls = rs
        lt == IF numeric THEN ln.v < rn.v ELSE StringLess(ls, rs)
    IN  CASE operator = "equals" -> eq
          [] operator = "not_equals" -> ~eq
          [] operator = "greater_than" -> ~lt /\ ~eq
          [] operator = "less_than" -> lt
          [] operator = "greater_than_or_equal" -> ~lt
          [] operator = "less_than_or_equal" -> lt \/ eq
          [] operator = "contains" -> includes(ls, rs)

\* C21: compareValues compares two finite numbers numerically and anything
\* else as lower-cased strings, under every operator: equality, the four
\* ordering operators, and 'contains' as a case-insensitive substring test.
C21_NumericElseString ==
    (probe.fn = "compareValues" /\ probe.done)
    => probe.matches = ComparedAs(probe.left, probe.rightRaw, probe.operator)

\* C22: for request_download_link and create_stream, each target that has a
\* file id (0 included) gets one link request for its first file id and is
\* counted; a target without file ids gets none and raises nothing.
C22_FirstFileRequested ==
    (/\ probe.fn = "executeAction"
     /\ probe.done
     /\ probe.rule.action \in {"request_download_link", "create_stream"}
     /\ probe.bad = {})
    => LET out == probe.out[1]
           having == SelectSeq(probe.targets, LAMBDA t : t.fileIds # <<>>)
       IN  /\ Len(out.calls) = Len(having)
           /\ out.affected = Len(having)
           /\ \A k \in 1..Len(out.calls) :
                 /\ out.calls[k].sourceId = having[k].sourceId
                 /\ out.calls[k].source = having[k].source
                 /\ out.calls[k].fn = IF probe.rule.action = "create_stream"
                                      THEN "getStreamLink" ELSE "getDownloadLink"

C24_NotificationFailureIgnored ==
    [][ \A run \in runs, env \in Outcomes :
            (/\ RunSettled(run, env.failing, env.remote, env.bad, env.notifyOk)
             /\ env.failing = "none"
             /\ env.bad = {})
            => \A after \in runs' \ runs :
                  /\ after.outcome.prefix # "Failed: "
                  /\ after.outcome.text \in {"Processed n item.", "Processed n items.",
                                             "No matching downloads found.",
                                             "No supported items matched this action."} ]_vars

\* C25: every rule of the list, in memory and in storage, has
\* checkIntervalMinutes >= 1, whatever intervals addRuleFromPreset,
\* createCustomRule and updateRule were called with.
C25_IntervalAtLeastOne ==
    /\ \A i \in 1..Len(rules) : rules[i].checkIntervalMinutes >= 1
    /\ \A i \in 1..Len(stored) : stored[i].checkIntervalMinutes >= 1

\* C26: no two rules of the list have the same id, however addRuleFromPreset
\* and createCustomRule are called (twice within one clock millisecond
\* included).
C26_IdsUnique ==
    \A i, j \in 1..Len(rules) : rules[i].id = rules[j].id => i = j

\* C27: when the scheduler tick triggers a rule whose previous scheduled run
\* has recorded its result, at least max(1, checkIntervalMinutes) minutes lie
\* between that record and the trigger, whatever runs of other rules recorded
\* their results in between.
C27_ScheduledRunsSpaced ==
    [][ lastOp'.op = "tick"
        => \A run \in runs' \ runs, d \in history.done :
              d.id = run.id
              => now - d.at >= Max(1, run.rule.checkIntervalMinutes) * MS_PER_MINUTE ]_vars

\* C28: a rule id that deleteRule was called with is from then on neither in
\* the rule list in memory nor (the save having succeeded) in the stored list,
\* also when a run that was in flight at the delete records its result
\* afterwards; the delete leaves every other rule as it was.
C28_DeletedStaysDeleted ==
    [][ /\ \A id \in history'.deleted :
              /\ id \notin Ids(rules')
              /\ storageOk => id \notin Ids(stored')
        /\ \A id \in OpIds :
              deleteRule(id) => rules' = SelectSeq(rules, LAMBDA r : r.id # id) ]_vars

\* C29: the run-lock holds exactly the ids of the rules that have a run in
\* flight: a run that has come to its end, its remote calls having returned or
\* thrown, has taken its id out, so the set is empty when no run is in flight.
C29_LockOnlyWhileRunning ==
    /\ runLock = {run.id : run \in runs}
    /\ runs = {} => runLock = {}

\* A rule whose scheduled run of this session has recorded its result and
\* ended is in flight again, and it alone is locked
C29_Witness ==
    \E run \in runs, d \in history.done :
        /\ d.id = run.id
        /\ run.pc = "running"
        /\ runs = {run}
        /\ runLock = {run.id}
        /\ run.rule.lastRunAt = d.at

\* C30: a trigger, by the tick or by Run Now, of a rule whose action is not
\* supported for its scope starts no run (no list fetch, no remote call) and
\* does not lock the rule; it switches the rule off and sets its lastResult to
\* 'Unsupported scope/action combination.', runCount and lastRunAt staying as
\* they were.
C30_UnsupportedTrigger ==
    [][ \A i \in 1..Len(rules) :
            LET rule == rules[i]
                triggered ==
                    \/ lastOp'.op = "tick" /\ rule.enabled /\ IsDue(rule, now)
                    \/ lastOp'.op = "runNow" /\ lastOp'.id = rule.id /\ alert' # "Throttled"
            IN  (/\ triggered
                 /\ rule.id \notin runLock
                 /\ ~isActionSupportedForScope(rule.action, Nullish(rule.scope, "all")))
                => /\ \A run \in runs' \ runs : run.id # rule.id
                   /\ rule.id \notin runLock'
                   /\ Len(rules') = Len(rules)
                   /\ ~rules'[i].enabled
                   /\ rules'[i].lastResult = Result("", "Unsupported scope/action combination.", 0)
                   /\ rules'[i].runCount = rule.runCount
                   /\ rules'[i].lastRunAt = rule.lastRunAt ]_vars

====
